---- MODULE Spec2Model ----
(***************************************************************************)
(* Library REST backend (FastAPI + SQLAlchemy over SQLite): users, books   *)
(* and the borrow/return ledger.                                           *)
(*                                                                         *)
(* The store is the three tables of models.py.  Every request runs in a   *)
(* session of its own (database.get_db).  create_user, borrow_book and    *)
(* return_book read, decide on what they read, and commit later: each is  *)
(* two steps, the read with its checks and the flush + commit, and other  *)
(* requests may commit in between (the handlers take no row lock and      *)
(* check no version).  A request that has read and not yet committed is   *)
(* an element of the bag inflight.  return_book's second query (the book  *)
(* row) is taken together with its commit: no handler deletes a book.     *)
(* delete_user, update_user, create_book and the two listings are one     *)
(* step each.                                                              *)
(*                                                                         *)
(* Time is counted in days.  Ids are SQLite rowids: the largest in use    *)
(* plus one, so the id of a deleted last row is given out again.          *)
(*                                                                         *)
(* A commit that the storage refuses (SQLAlchemyError: rollback, 500) is  *)
(* a step of SpecStorage only; Spec and SpecSeq are the server over a     *)
(* storage that does not fail.                                             *)
(*                                                                         *)
(* Not modelled: title, author, isbn, username, is_active, password hash  *)
(* and the created/updated timestamps (no handler branches on them), and  *)
(* the read-only GET /users/list, /users/{user_id}, /users/email/{email}. *)
(***************************************************************************)
EXTENDS Integers, FiniteSets, Bags, TLC

\* ---------------------------------------------------------------- bounds
MaxUsers == 2
MaxBooks == 1
MaxBorrows == 2
MaxClock == 1
MaxWorkers == 2

\* ------------------------------------------------------------- constants
\* timedelta(days=7): the loan period, in days (the unit of the clock)
LoanDays == 7
\* None in a nullable DateTime column
NULL == -1
UserIds == 1..MaxUsers
BookIds == 1..MaxBooks
Emails == 1..MaxUsers
\* A bearer credential is named by its subject.  One that is not in tokens is
\* one jwt.decode rejects: expired, never issued, badly signed.
Tokens == Emails

VARIABLES
    users,      \* table users:        set of [id, email]
    books,      \* table books:        set of [id, is_available]
    borrows,    \* table book_borrows: set of [id, book_id, user_id, borrow_date, due_date, return_date]
    tokens,     \* subjects (emails) of the issued bearer tokens that still verify
    now,        \* datetime.now(), in days
    inflight,   \* bag of requests that have read and not yet committed
    workers,    \* number of requests the server serves at once
    resp        \* the response of the request that completed last

vars == <<users, books, borrows, tokens, now, inflight, workers, resp>>

\* ---------------------------------------------------------------- helpers
Max(S) == CHOOSE x \in S : \A y \in S : y <= x

\* Integer primary key of a SQLite table: the largest rowid in use plus one
NextId(table) == IF table = {} THEN 1 ELSE Max({r.id : r \in table}) + 1

Response(op, status, book, user, body) ==
    [op |-> op, status |-> status, book |-> book, user |-> user, body |-> body]

Request(op, book, user, rec) == [op |-> op, book |-> book, user |-> user, rec |-> rec]

Pending(op) == BagCardinality([q \in {x \in BagToSet(inflight) : x.op = op} |-> inflight[q]])

\* A worker is free to take a request
Idle == BagCardinality(inflight) < workers

Enqueue(q) == inflight' = inflight (+) SetToBag({q})
Dequeue(q) == inflight' = inflight (-) SetToBag({q})

\* UserRepository.get_user / get_user_by_email
get_user(user_id) == {u \in users : u.id = user_id}
get_user_by_email(email) == {u \in users : u.email = email}

\* get_current_user: the token decodes and its subject is a stored user's email
get_current_user(tok) == tok \in tokens /\ get_user_by_email(tok) # {}

\* get_current_user raises 401 before the handler runs
Unauthorized == resp' = Response("get_current_user", 401, 0, 0, {})

\* ------------------------------------------------------------------ Init
\* Base.metadata.create_all on an empty database: three empty tables
Init ==
    /\ users = {}
    /\ books = {}
    /\ borrows = {}
    /\ tokens = {}
    /\ now = 0
    /\ inflight = EmptyBag
    /\ workers = MaxWorkers
    /\ resp = Response("none", 0, 0, 0, {})

\* The same server with a single worker: requests are served one at a time
InitSeq ==
    /\ users = {}
    /\ books = {}
    /\ borrows = {}
    /\ tokens = {}
    /\ now = 0
    /\ inflight = EmptyBag
    /\ workers = 1
    /\ resp = Response("none", 0, 0, 0, {})

\* ----------------------------------------------------- ledger, pure parts
\* Mutants of BorrowCheck: the availability check left out; the existence
\* check left out
BorrowCheckNoAvailability(book_id) ==
    IF {b \in books : b.id = book_id} = {} THEN 404 ELSE 0

BorrowCheckNoExistence(book_id) ==
    IF \E b \in books : b.id = book_id /\ ~b.is_available THEN 400 ELSE 0

\* borrow_book, the checks on the book row it read: 404, 400 or 0 (go on)
BorrowCheck(book_id) ==
    LET book == {b \in books : b.id = book_id} IN
    IF book = {} THEN 404
    ELSE IF \E b \in book : ~b.is_available THEN 400
    ELSE 0

\* Mutant of NewBorrow: the loan period left out of due_date
NewBorrowDueAtOnce(id, book_id, user_id, borrow_date) ==
    [id |-> id, book_id |-> book_id, user_id |-> user_id,
     borrow_date |-> borrow_date, due_date |-> borrow_date,
     return_date |-> NULL]

\* borrow_book: the BookBorrow row it adds
NewBorrow(id, book_id, user_id, borrow_date) ==
    [id |-> id, book_id |-> book_id, user_id |-> user_id,
     borrow_date |-> borrow_date, due_date |-> borrow_date + LoanDays,
     return_date |-> NULL]

\* Mutant of SetAvailable: the assignment to the flag left out
SetAvailableLost(book_id, v) == books

\* book.is_available = v, flushed as UPDATE books ... WHERE id = book_id
SetAvailable(book_id, v) ==
    {IF b.id = book_id THEN [b EXCEPT !.is_available = v] ELSE b : b \in books}

\* Mutant of OpenBorrow: the lookup scoped to the book alone
OpenBorrowOfAnyMember(book_id, user_id) ==
    {r \in borrows : r.book_id = book_id /\ r.return_date = NULL}

\* return_book: the rows its lookup matches (.first() takes one of them)
OpenBorrow(book_id, user_id) ==
    {r \in borrows : r.book_id = book_id /\ r.user_id = user_id /\ r.return_date = NULL}

\* Mutant of CloseBorrow: return_date left unset
CloseBorrowNoReturnDate(r, t) == [r EXCEPT !.due_date = t]

\* return_book: borrow.due_date = now; borrow.return_date = now
CloseBorrow(r, t) == [r EXCEPT !.due_date = t, !.return_date = t]

\* User.books, cascade="all, delete-orphan": the rows that survive db.delete(user)
CascadeDelete(user_id) == {r \in borrows : r.user_id # user_id}

\* Mutant of AllBooksRows: an inner join in place of the outer join
AllBooksRowsInnerJoin ==
    {[id |-> p[1].id, is_available |-> p[1].is_available, borrow_date |-> p[2].borrow_date,
      due_date |-> p[2].due_date, return_date |-> p[2].return_date, rec |-> p[2].id] :
        p \in {x \in books \X borrows : x[1].id = x[2].book_id}}

\* get_all_books: Book LEFT OUTER JOIN BookBorrow, one row per pair and one
\* row of nulls per book without a BookBorrow.  rec tells the rows of a book
\* apart (the response is a list: rows with equal dates stay two rows).
AllBooksRows ==
    {[id |-> p[1].id, is_available |-> p[1].is_available, borrow_date |-> p[2].borrow_date,
      due_date |-> p[2].due_date, return_date |-> p[2].return_date, rec |-> p[2].id] :
        p \in {x \in books \X borrows : x[1].id = x[2].book_id}}
    \cup
    {[id |-> b.id, is_available |-> b.is_available, borrow_date |-> NULL,
      due_date |-> NULL, return_date |-> NULL, rec |-> NULL] :
        b \in {x \in books : \A r \in borrows : r.book_id # x.id}}

\* get_borrowed_books: Book JOIN BookBorrow WHERE Book.is_available == False
BorrowedRows ==
    {[id |-> p[1].id, due_date |-> p[2].due_date, borrow_date |-> p[2].borrow_date,
      rec |-> p[2].id] :
        p \in {x \in books \X borrows : x[1].id = x[2].book_id /\ ~x[1].is_available}}

\* --------------------------------------------------------------- actions
\* POST /login
login_for_access_token(email, pw_ok) ==
    /\ Idle
    /\ IF get_user_by_email(email) = {} \/ ~pw_ok
       THEN /\ resp' = Response("login", 401, 0, 0, {})
            /\ UNCHANGED tokens
       ELSE /\ tokens' = tokens \cup {email}
            /\ resp' = Response("login", 200, 0, 0, {})
    /\ UNCHANGED <<users, books, borrows, now, inflight, workers>>

\* POST /users/ (main.create_user): the email check, then the hand-over to
\* the repository
create_user(email) ==
    /\ Idle
    /\ IF get_user_by_email(email) # {}
       THEN /\ resp' = Response("create_user", 400, 0, 0, {})
            /\ UNCHANGED inflight
       ELSE /\ NextId(users) + Pending("create_user") <= MaxUsers
            /\ Enqueue(Request("create_user", 0, email, 0))
            /\ UNCHANGED resp
    /\ UNCHANGED <<users, books, borrows, tokens, now, workers>>

\* Mutant of UserRepository_create_user: the column declared without unique=True
UserRepository_create_user_NoUniqueIndex(q) ==
    /\ q.op = "create_user"
    /\ Dequeue(q)
    /\ users' = users \cup {[id |-> NextId(users), email |-> q.user]}
    /\ resp' = Response("create_user", 201, 0, 0, {})
    /\ UNCHANGED <<books, borrows, tokens, now, workers>>

\* UserRepository.create_user: INSERT + commit; the unique index on email
\* makes the commit fail (IntegrityError -> rollback, 500)
UserRepository_create_user(q) ==
    /\ q.op = "create_user"
    /\ Dequeue(q)
    /\ IF get_user_by_email(q.user) # {}
       THEN /\ resp' = Response("create_user", 500, 0, 0, {})
            /\ UNCHANGED users
       ELSE /\ users' = users \cup {[id |-> NextId(users), email |-> q.user]}
            /\ resp' = Response("create_user", 201, 0, 0, {})
    /\ UNCHANGED <<books, borrows, tokens, now, workers>>

\* DELETE /users/{user_id}: main.delete_user and UserRepository.delete_user.
\* Both look the user up; db.delete cascades to the user's BookBorrow rows.
delete_user(tok, user_id) ==
    /\ Idle
    /\ IF ~get_current_user(tok) THEN Unauthorized /\ UNCHANGED <<users, borrows>>
       ELSE IF get_user(user_id) = {}
       THEN /\ resp' = Response("delete_user", 404, 0, 0, {})
            /\ UNCHANGED <<users, borrows>>
       ELSE /\ users' = users \ get_user(user_id)
            /\ borrows' = CascadeDelete(user_id)
            /\ resp' = Response("delete_user", 200, 0, 0, {})
    /\ UNCHANGED <<books, tokens, now, inflight, workers>>

\* PUT /users/{user_id}: lookup, setattr, commit, refresh.  The columns it
\* writes (username, is_active) are not modelled.
update_user(tok, user_id) ==
    /\ Idle
    /\ IF ~get_current_user(tok) THEN Unauthorized
       ELSE resp' = Response("update_user", IF get_user(user_id) = {} THEN 404 ELSE 200,
                             0, 0, {})
    /\ UNCHANGED <<users, books, borrows, tokens, now, inflight, workers>>

\* POST /books/ and BookRepository.create_book: INSERT + commit
create_book(tok) ==
    /\ Idle
    /\ IF ~get_current_user(tok) THEN Unauthorized /\ UNCHANGED books
       ELSE /\ NextId(books) <= MaxBooks
            /\ books' = books \cup {[id |-> NextId(books), is_available |-> TRUE]}
            /\ resp' = Response("create_book", 200, 0, 0, {})
    /\ UNCHANGED <<users, borrows, tokens, now, inflight, workers>>

\* POST /books/{book_id}/borrow: authentication, then BookRepository.borrow_book
\* up to its checks on the book row
borrow_book(tok, book_id, user_id) ==
    /\ Idle
    /\ IF ~get_current_user(tok) THEN Unauthorized /\ UNCHANGED inflight
       ELSE IF BorrowCheck(book_id) # 0
       THEN /\ resp' = Response("borrow", BorrowCheck(book_id), book_id, user_id, {})
            /\ UNCHANGED inflight
       ELSE /\ NextId(borrows) + Pending("borrow") <= MaxBorrows
            /\ Enqueue(Request("borrow", book_id, user_id, 0))
            /\ UNCHANGED resp
    /\ UNCHANGED <<users, books, borrows, tokens, now, workers>>

\* BookRepository.borrow_book, the try block: the new row and the book's
\* flag in one flush + commit.  No foreign key is enforced and the UPDATE
\* does not look at is_available.
borrow_book_commit(q) ==
    /\ q.op = "borrow"
    /\ Dequeue(q)
    /\ LET borrow == NewBorrow(NextId(borrows), q.book, q.user, now) IN
       /\ borrows' = borrows \cup {borrow}
       /\ books' = SetAvailable(q.book, FALSE)
       /\ resp' = Response("borrow", 200, q.book, q.user, {borrow})
    /\ UNCHANGED <<users, tokens, now, workers>>

\* POST /books/{book_id}/return: authentication, then BookRepository.return_book
\* up to its lookup of the open BookBorrow
return_book(tok, book_id, user_id) ==
    /\ Idle
    /\ IF ~get_current_user(tok) THEN Unauthorized /\ UNCHANGED inflight
       ELSE IF OpenBorrow(book_id, user_id) = {}
       THEN /\ resp' = Response("return", 404, book_id, user_id, {})
            /\ UNCHANGED inflight
       ELSE /\ \E r \in OpenBorrow(book_id, user_id) :
                   Enqueue(Request("return", book_id, user_id, r.id))
            /\ UNCHANGED resp
    /\ UNCHANGED <<users, books, borrows, tokens, now, workers>>

\* BookRepository.return_book, the try block: UPDATE book_borrows ... WHERE
\* id = <the row found>, the lookup of the book, its flag, commit.  The UPDATE
\* matching no row (the row was deleted meanwhile) is a StaleDataError:
\* rollback, 500.
return_book_commit(q) ==
    /\ q.op = "return"
    /\ Dequeue(q)
    /\ IF \A b \in books : b.id # q.book
       THEN /\ resp' = Response("return", 404, q.book, q.user, {})
            /\ UNCHANGED <<books, borrows>>
       ELSE IF \A r \in borrows : r.id # q.rec
       THEN /\ resp' = Response("return", 500, q.book, q.user, {})
            /\ UNCHANGED <<books, borrows>>
       ELSE /\ borrows' = {IF r.id = q.rec THEN CloseBorrow(r, now) ELSE r : r \in borrows}
            /\ books' = SetAvailable(q.book, TRUE)
            /\ resp' = Response("return", 200, q.book, q.user,
                                {b \in books' : b.id = q.book})
    /\ UNCHANGED <<users, tokens, now, workers>>

\* BookRepository.borrow_book, the except clause: flush or commit raised a
\* SQLAlchemyError (the database is locked, the disk is full): db.rollback(),
\* 500
borrow_book_rollback(q) ==
    /\ q.op = "borrow"
    /\ Dequeue(q)
    /\ resp' = Response("borrow", 500, q.book, q.user, {})
    /\ UNCHANGED <<users, books, borrows, tokens, now, workers>>

\* BookRepository.return_book, the except clause: the same for the commit of
\* a return (it is reached when the book row was found)
return_book_rollback(q) ==
    /\ q.op = "return"
    /\ \E b \in books : b.id = q.book
    /\ Dequeue(q)
    /\ resp' = Response("return", 500, q.book, q.user, {})
    /\ UNCHANGED <<users, books, borrows, tokens, now, workers>>

\* GET /books/list
get_books_list(tok) ==
    /\ Idle
    /\ IF ~get_current_user(tok) THEN Unauthorized
       ELSE resp' = Response("list_books", 200, 0, 0, AllBooksRows)
    /\ UNCHANGED <<users, books, borrows, tokens, now, inflight, workers>>

\* GET /books/borrowed (no authentication)
get_borrowed_books ==
    /\ Idle
    /\ resp' = Response("list_borrowed", IF BorrowedRows = {} THEN 404 ELSE 200,
                        0, 0, BorrowedRows)
    /\ UNCHANGED <<users, books, borrows, tokens, now, inflight, workers>>

\* A day passes.  A token lives ACCESS_TOKEN_EXPIRE_MINUTES = 30 minutes, so
\* none issued before survives it.
Tick ==
    /\ now < MaxClock
    /\ now' = now + 1
    /\ tokens' = {}
    /\ UNCHANGED <<users, books, borrows, inflight, workers, resp>>

\* The exp claim of a token passes: jwt.decode rejects it from now on
TokenExpires(email) ==
    /\ email \in tokens
    /\ tokens' = tokens \ {email}
    /\ UNCHANGED <<users, books, borrows, now, inflight, workers, resp>>

\* ---------------------------------------------------------- specifications
Next ==
    \/ \E e \in Emails, ok \in BOOLEAN : login_for_access_token(e, ok)
    \/ \E e \in Emails : create_user(e)
    \/ \E q \in BagToSet(inflight) : UserRepository_create_user(q)
    \/ \E t \in Tokens, u \in UserIds : delete_user(t, u)
    \/ \E t \in Tokens, u \in UserIds : update_user(t, u)
    \/ \E t \in Tokens : create_book(t)
    \/ \E t \in Tokens, b \in BookIds, u \in UserIds : borrow_book(t, b, u)
    \/ \E q \in BagToSet(inflight) : borrow_book_commit(q)
    \/ \E t \in Tokens, b \in BookIds, u \in UserIds : return_book(t, b, u)
    \/ \E q \in BagToSet(inflight) : return_book_commit(q)
    \/ \E t \in Tokens : get_books_list(t)
    \/ get_borrowed_books
    \/ Tick
    \/ \E e \in Emails : TokenExpires(e)

\* Requests served concurrently: the endpoints are sync handlers, run on the
\* worker threads of the server, each with a session of its own
Spec == Init /\ [][Next]_vars

\* Requests served one at a time
SpecSeq == InitSeq /\ [][Next]_vars

\* The storage may refuse the commit of a borrow or of a return
NextStorage ==
    \/ Next
    \/ \E q \in BagToSet(inflight) : borrow_book_rollback(q)
    \/ \E q \in BagToSet(inflight) : return_book_rollback(q)

\* Requests served concurrently over a storage that may fail
SpecStorage == Init /\ [][NextStorage]_vars

\* ------------------------------------------------------------ properties
OpenRecords(book_id) == {r \in borrows : r.book_id = book_id /\ r.return_date = NULL}

ClosedRecords(table, book_id, user_id) ==
    {r \in table : r.book_id = book_id /\ r.user_id = user_id /\ r.return_date # NULL}

Unavailable(book_id) == \E b \in books : b.id = book_id /\ ~b.is_available

\* C1: in every state reached by serving requests one at a time, a book is
\* unavailable iff exactly one BorrowRecord of it has return_date = null.
\* delete_user cascades to the member's open record and leaves the book
\* unavailable.
AvailabilityMatchesOpenRecord ==
    \A b \in books : (~b.is_available) <=> (Cardinality(OpenRecords(b.id)) = 1)

\* C2: of the concurrent borrow requests for one available book one succeeds
\* and the others get Conflict, so no state holds two open BorrowRecords of
\* one book.  Both requests read is_available = true before either commits.
NoDoubleBorrow ==
    \A b \in books : Cardinality(OpenRecords(b.id)) <= 1

\* C3: an authenticated Borrow on a stored book that is not available answers
\* 400 and leaves the tables and the requests in flight as they were.
BorrowUnavailableIsConflict ==
    [][\A t \in Tokens, b \in BookIds, u \in UserIds :
        (get_current_user(t) /\ Unavailable(b) /\ borrow_book(t, b, u))
        => /\ resp' = Response("borrow", 400, b, u, {})
           /\ UNCHANGED <<users, books, borrows, inflight>>]_vars

BorrowUnavailableSeen ==
    /\ resp.op = "borrow" /\ resp.status = 400
    /\ Unavailable(resp.book)

\* C4: an authenticated Return for a (book, member) pair without an open
\* BorrowRecord answers 404, also when another member holds the book, and
\* leaves the tables and the requests in flight as they were.
ReturnWithoutOpenRecordIsNotFound ==
    [][\A t \in Tokens, b \in BookIds, u \in UserIds :
        (/\ get_current_user(t)
         /\ ~\E r \in borrows : r.book_id = b /\ r.user_id = u /\ r.return_date = NULL
         /\ return_book(t, b, u))
        => /\ resp' = Response("return", 404, b, u, {})
           /\ UNCHANGED <<users, books, borrows, inflight>>]_vars

ReturnOfAnotherMembersLoanSeen ==
    /\ resp.op = "return" /\ resp.status = 404
    /\ get_user(resp.user) # {}
    /\ \E r \in OpenRecords(resp.book) : r.user_id # resp.user /\ get_user(r.user_id) # {}

\* C5: an authenticated Borrow of a book id that no stored book has answers
\* 404 and leaves the tables and the requests in flight as they were.
BorrowMissingBookIsNotFound ==
    [][\A t \in Tokens, b \in BookIds, u \in UserIds :
        (get_current_user(t) /\ (\A bk \in books : bk.id # b) /\ borrow_book(t, b, u))
        => /\ resp' = Response("borrow", 404, b, u, {})
           /\ UNCHANGED <<users, books, borrows, inflight>>]_vars

BorrowMissingBookSeen ==
    /\ resp.op = "borrow" /\ resp.status = 404
    /\ \A bk \in books : bk.id # resp.book

\* C6 as stated: after a successful Return(b, m) the book is available, has
\* no open record, and the pair (b, m) has exactly one record with a
\* return_date.  A pair that has borrowed and returned before has more.
RoundTripLeavesOneClosedRecord ==
    (resp.op = "return" /\ resp.status = 200)
    => /\ ~Unavailable(resp.book)
       /\ OpenRecords(resp.book) = {}
       /\ Cardinality(ClosedRecords(borrows, resp.book, resp.user)) = 1

\* C6 as amended, requests served one at a time: a Return(b, m) while (b, m)
\* has an open record is accepted and succeeds, answers the book with
\* is_available = true, leaves no open record of b and exactly one more
\* record of (b, m) with a return_date than before, creating none; a Borrow of
\* b while it has an open record creates no record.
RoundTripAddsOneClosedRecord ==
    [][/\ \A t \in Tokens, b \in BookIds, u \in UserIds :
            (/\ get_current_user(t)
             /\ \E r \in borrows : r.book_id = b /\ r.user_id = u /\ r.return_date = NULL
             /\ return_book(t, b, u))
            => \E q \in BagToSet(inflight') : q.op = "return" /\ q.book = b /\ q.user = u
       /\ \A q \in BagToSet(inflight) :
            (q.op = "return" /\ return_book_commit(q))
            => /\ resp'.status = 200
               /\ resp'.body = {[id |-> q.book, is_available |-> TRUE]}
               /\ \A bk \in books' : bk.id = q.book => bk.is_available
               /\ \A r \in borrows' : r.book_id = q.book => r.return_date # NULL
               /\ Cardinality(ClosedRecords(borrows', q.book, q.user))
                    = Cardinality(ClosedRecords(borrows, q.book, q.user)) + 1
               /\ Cardinality(borrows') = Cardinality(borrows)
       /\ \A t \in Tokens, b \in BookIds, u \in UserIds :
            (get_current_user(t) /\ OpenRecords(b) # {} /\ borrow_book(t, b, u))
            => /\ resp'.status = 400
               /\ UNCHANGED <<borrows, inflight>>]_vars

SecondRoundTripSeen ==
    /\ resp.op = "return" /\ resp.status = 200
    /\ Cardinality(ClosedRecords(borrows, resp.book, resp.user)) = 2

\* C7: the commit of a Borrow(b, m) adds exactly one BorrowRecord, with
\* book_id = b, user_id = m, borrow_date = now, due_date = borrow_date + 7
\* days and return_date = null, answers it, and in the same step makes b
\* unavailable, leaving every other book as it was.
BorrowCreatesOneRecord ==
    [][\A q \in BagToSet(inflight) :
        (q.op = "borrow" /\ borrow_book_commit(q))
        => /\ \E rec \in borrows' :
                /\ rec \notin borrows
                /\ borrows' = borrows \cup {rec}
                /\ rec.book_id = q.book /\ rec.user_id = q.user
                /\ rec.borrow_date = now
                /\ rec.due_date = rec.borrow_date + LoanDays
                /\ rec.return_date = NULL
                /\ resp' = Response("borrow", 200, q.book, q.user, {rec})
           /\ \A bk \in books' : bk.id = q.book => ~bk.is_available
           /\ {bk \in books' : bk.id # q.book} = {bk \in books : bk.id # q.book}
           /\ {bk.id : bk \in books'} = {bk.id : bk \in books}]_vars

BorrowSucceededSeen ==
    /\ resp.op = "borrow" /\ resp.status = 200
    /\ \E rec \in resp.body : rec \in borrows /\ rec.return_date = NULL
    /\ Unavailable(resp.book)

\* C8: when GET /books/borrowed answers 200, after borrows and returns
\* served one at a time, it has as many entries as there are unavailable
\* books.  The join takes the returned loans of an unavailable book too.
ListBorrowedOnePerUnavailableBook ==
    (resp.op = "list_borrowed" /\ resp.status = 200)
    => Cardinality(resp.body) = Cardinality({b \in books : ~b.is_available})

\* C9 as stated: get_all_books lists every available book, and with null
\* borrow metadata.  A returned loan of the book is joined to it.
AvailableBooksListedWithNullMetadata ==
    (resp.op = "list_books" /\ resp.status = 200)
    => \A b \in books : b.is_available =>
          /\ \E row \in resp.body : row.id = b.id
          /\ \A row \in resp.body : row.id = b.id =>
                /\ row.borrow_date = NULL
                /\ row.due_date = NULL
                /\ row.return_date = NULL

\* C9 as amended: an authenticated get_all_books answers 200, changes
\* nothing, answers the empty sequence for an empty catalog, lists every book
\* that has no BorrowRecord at all once, with null borrow metadata, and every
\* other book once per BorrowRecord of it, open or returned, with the dates
\* of that record.
BooksListedWithTheirRecords ==
    [][\A t \in Tokens :
        (get_current_user(t) /\ get_books_list(t))
        => /\ resp'.op = "list_books" /\ resp'.status = 200
           /\ UNCHANGED <<users, books, borrows, inflight>>
           /\ books = {} => resp'.body = {}
           /\ \A row \in resp'.body : \E b \in books : b.id = row.id
           /\ \A b \in books :
                LET rows == {row \in resp'.body : row.id = b.id}
                    recs == {r \in borrows : r.book_id = b.id} IN
                /\ \A row \in rows : row.is_available = b.is_available
                /\ recs = {} =>
                     /\ Cardinality(rows) = 1
                     /\ \A row \in rows : /\ row.borrow_date = NULL
                                          /\ row.due_date = NULL
                                          /\ row.return_date = NULL
                /\ recs # {} =>
                     /\ Cardinality(rows) = Cardinality(recs)
                     /\ \A r \in recs : \E row \in rows :
                            /\ row.borrow_date = r.borrow_date
                            /\ row.due_date = r.due_date
                            /\ row.return_date = r.return_date]_vars

AvailableBookListedWithReturnedLoan ==
    /\ resp.op = "list_books" /\ resp.status = 200
    /\ \E row \in resp.body : row.is_available /\ row.return_date # NULL

\* C10: of two concurrent Return(b, m) for one open loan at most one
\* succeeds: a Return that commits with success closes a record of (b, m)
\* that was still open when it committed.  The UPDATE is by the id of the
\* row found and does not look at return_date.
ReturnClosesAnOpenRecord ==
    [][\A q \in BagToSet(inflight) :
        (q.op = "return" /\ return_book_commit(q) /\ resp'.status = 200)
        => \E r \in borrows :
              /\ r.id = q.rec /\ r.book_id = q.book /\ r.user_id = q.user
              /\ r.return_date = NULL]_vars

\* C11: no state holds two stored users with one email, whatever the
\* interleaving of the create_user requests, and a create_user whose email a
\* stored user holds answers 400 and adds no user and no request in flight.
EmailsAreUnique ==
    /\ [](\A u1, u2 \in users : u1.email = u2.email => u1 = u2)
    /\ [][\A e \in Emails :
            (get_user_by_email(e) # {} /\ create_user(e))
            => /\ resp' = Response("create_user", 400, 0, 0, {})
               /\ UNCHANGED <<users, books, borrows, inflight>>]_vars

\* Two requests with one email passed the check of main.create_user; the
\* commit of the second was refused by the unique index
ConcurrentDuplicateRefused ==
    /\ resp.op = "create_user" /\ resp.status = 500
    /\ users # {}

\* C12: a Return that commits with success changes, of the record it matched,
\* the return_date alone (to the time of the call), makes its book available
\* and leaves every other record and book as it was; the record's due_date is
\* still borrow_date + 7 days.  return_book assigns due_date as well.
ReturnChangesOnlyReturnDate ==
    [][\A q \in BagToSet(inflight) :
        (q.op = "return" /\ return_book_commit(q) /\ resp'.status = 200)
        => /\ \E r \in borrows :
                /\ r.id = q.rec
                /\ borrows' = (borrows \ {r}) \cup {[r EXCEPT !.return_date = now]}
           /\ \A r \in borrows' : r.id = q.rec => r.due_date = r.borrow_date + LoanDays
           /\ \A b \in books' : b.id = q.book => b.is_available
           /\ {b \in books' : b.id # q.book} = {b \in books : b.id # q.book}]_vars

\* C13: requests served one at a time.  A Borrow of b succeeds only from
\* is_available = true and leaves it false; a Return of (b, m) succeeds only
\* from is_available = false with an open record of (b, m) and leaves it
\* true; nothing else changes the flag of a stored book.  So the successful
\* calls on a book alternate, a borrow first.  A Borrow right after a
\* successful Borrow of the book answers 400, a Return right after a
\* successful Return of it answers 404.
BorrowAndReturnAlternate ==
    [][/\ \A q \in BagToSet(inflight) :
            (q.op = "borrow" /\ borrow_book_commit(q))
            => /\ \E b \in books : b.id = q.book /\ b.is_available
               /\ \E b \in books' : b.id = q.book /\ ~b.is_available
       /\ \A q \in BagToSet(inflight) :
            (q.op = "return" /\ return_book_commit(q) /\ resp'.status = 200)
            => /\ \E b \in books : b.id = q.book /\ ~b.is_available
               /\ \E r \in borrows : /\ r.book_id = q.book /\ r.user_id = q.user
                                      /\ r.return_date = NULL
               /\ \E b \in books' : b.id = q.book /\ b.is_available
       /\ \A b \in books :
            (\E c \in books' : c.id = b.id /\ c.is_available # b.is_available)
            => \E q \in BagToSet(inflight) :
                  /\ q.book = b.id
                  /\ resp'.status = 200
                  /\ \/ q.op = "borrow" /\ borrow_book_commit(q)
                     \/ q.op = "return" /\ return_book_commit(q)
       /\ \A t \in Tokens, u \in UserIds :
            (/\ resp.op = "borrow" /\ resp.status = 200
             /\ get_current_user(t) /\ borrow_book(t, resp.book, u))
            => /\ resp' = Response("borrow", 400, resp.book, u, {})
               /\ UNCHANGED <<users, books, borrows, inflight>>
       /\ \A t \in Tokens, u \in UserIds :
            (/\ resp.op = "return" /\ resp.status = 200
             /\ get_current_user(t) /\ return_book(t, resp.book, u))
            => /\ resp' = Response("return", 404, resp.book, u, {})
               /\ UNCHANGED <<users, books, borrows, inflight>>]_vars

\* Borrow, Return, Borrow, and then a Borrow refused
RefusedAfterSecondBorrow ==
    /\ resp.op = "borrow" /\ resp.status = 400
    /\ \E r \in borrows : r.book_id = resp.book /\ r.return_date # NULL
    /\ \E r \in borrows : r.book_id = resp.book /\ r.return_date = NULL

\* C14: over a storage that may fail, a commit of a borrow or of a return
\* that fails answers 500 and leaves the three tables as they were; no state
\* holds an open record whose book is available; and every step commits a
\* record and the flag of its book together: after a step that adds an open
\* record its book is unavailable, after a step that sets the return_date of
\* a record its book is available.  A return commits the flag it decided on
\* before other requests committed: of two open records of a book (C2) the
\* return of one makes the book available beside the other.
LedgerCommitsAreAtomic ==
    /\ [](\A r \in borrows :
            r.return_date = NULL
            => \E b \in books : b.id = r.book_id /\ ~b.is_available)
    /\ [][/\ \A q \in BagToSet(inflight) :
                (borrow_book_rollback(q) \/ return_book_rollback(q))
                => /\ resp' = Response(q.op, 500, q.book, q.user, {})
                   /\ UNCHANGED <<users, books, borrows>>
           /\ \A r \in borrows' \ borrows :
                /\ r.return_date = NULL
                     => \E b \in books' : b.id = r.book_id /\ ~b.is_available
                /\ r.return_date # NULL
                     => \E b \in books' : b.id = r.book_id /\ b.is_available]_vars

\* C15: every stored BorrowRecord references a stored book and a stored
\* user.  borrow_book looks the book up and not the user, and the foreign
\* keys of book_borrows are not enforced.
BorrowRecordsReferenceStoredRows ==
    \A r \in borrows :
        /\ \E b \in books : b.id = r.book_id
        /\ get_user(r.user_id) # {}

\* C16: a request to an endpoint guarded by get_current_user whose token does
\* not verify, or whose subject no stored user has, answers 401 and changes
\* neither the tables nor the requests in flight; and a token whose user was
\* deleted (it still verifies, no stored user has its subject) is not
\* accepted after any later step.  A new user registered with the email of
\* the deleted one makes the old token good again.
GuardedEndpointsRejectStaleTokens ==
    [][/\ \A t \in Tokens, b \in BookIds, u \in UserIds :
            (/\ ~get_current_user(t)
             /\ \/ delete_user(t, u)
                \/ update_user(t, u)
                \/ create_book(t)
                \/ borrow_book(t, b, u)
                \/ return_book(t, b, u)
                \/ get_books_list(t))
            => /\ Unauthorized
               /\ UNCHANGED <<users, books, borrows, inflight>>
       /\ \A e \in Emails :
            (e \in tokens /\ get_user_by_email(e) = {})
            => ~(e \in tokens' /\ \E u \in users' : u.email = e)]_vars

====
